---- MODULE Spec2Model ----
(***************************************************************************)
(* A model of gitlab_exporter.py: the label-event reducer                  *)
(* (calculate_time_in_state), the collector with its process-wide cache    *)
(* (collect_metrics), the alert gate (send_email_alert and its guard) and   *)
(* the HTTP handler (MetricsHandler.do_GET) run by a single-threaded        *)
(* HTTPServer.                                                              *)
(*                                                                          *)
(* Time is in whole seconds.  A duration in hours is the exact rational     *)
(* seconds/3600, kept as [num, den].  An ISO-8601 timestamp string is kept  *)
(* as its two parts: the local wall time (in seconds) and the UTC offset.   *)
(***************************************************************************)
EXTENDS Integers, Sequences, FiniteSets, TLC

VARIABLES
    clock,          \* the wall clock: time.time() and datetime.now(), in seconds
    upstream,       \* the state of the tracking API (which of the Worlds it is in)
    metrics_cache,  \* the module-level dict metrics_cache (lines 11-14)
    backlog,        \* the connections accepted by the kernel and not yet served
    handler,        \* per handler thread: the position and the locals of do_GET
    written,        \* history: the cycle (by its `now`) that wrote each cache field
    last_alert,     \* history: the outcome of the alert of the last stored cycle
    failures,       \* history: the tracking-API calls that have failed so far
    red             \* a function on its own, applied to one input: [.., done, out]

vars == <<clock, upstream, metrics_cache, backlog, handler, written, last_alert, failures, red>>

(***************************************************************************)
(* Python's None and optional values: None is the empty tuple and a value   *)
(* x that is present is <<x>>.                                              *)
(***************************************************************************)
None == <<>>

Some(x) == <<x>>

Val(o) == o[1]

(***************************************************************************)
(* config.py (not part of the sources at hand): the three watched labels.  *)
(***************************************************************************)
LABEL_REWORK == "rework"
LABEL_IN_REVIEW == "in_review"
LABEL_REWORK_DONE == "rework_done"

(***************************************************************************)
(* Bounds of the model.                                                    *)
(***************************************************************************)
MaxEvents == 3

(***************************************************************************)
(* datetime.fromisoformat(s.replace("Z", "+00:00")): the instant of an      *)
(* aware timestamp is its local wall time minus its UTC offset.  "Z" is     *)
(* offset 0.                                                                *)
(***************************************************************************)
Iso(local, off) == [local |-> local, off |-> off]

fromisoformat(s) == s.local - s.off

\* timedelta.total_seconds() / 3600
HoursOf(seconds) == [num |-> seconds, den |-> 3600]

\* Python truthiness of an optional float: None and 0.0 are falsy.
Truthy(d) == d # None /\ Val(d).num # 0

(***************************************************************************)
(* One resource_label_event: created_at, label (None, or Some(name) for a   *)
(* label dict with that name) and action ("add" or "remove").              *)
(***************************************************************************)
Event(ts, label, action) == [created_at |-> ts, label |-> label, action |-> action]

\* The reducer with the last add of a label winning over the first.
ScanEventLastAdd(acc, event) ==
    LET event_time == fromisoformat(event.created_at)
    IN  IF event.label = None THEN acc
        ELSE IF event.action # "add" THEN acc
        ELSE IF Val(event.label) = LABEL_REWORK
            THEN [acc EXCEPT !.rework_added = Some(event_time)]
        ELSE IF Val(event.label) = LABEL_IN_REVIEW
            THEN [acc EXCEPT !.in_review_added = Some(event_time)]
        ELSE IF Val(event.label) = LABEL_REWORK_DONE
            THEN [acc EXCEPT !.rework_done_added = Some(event_time)]
        ELSE acc

\* The reducer taking every event of a label, add or remove, as an add.
ScanEventAnyAction(acc, event) ==
    LET event_time == fromisoformat(event.created_at)
    IN  IF event.label = None THEN acc
        ELSE IF Val(event.label) = LABEL_REWORK /\ acc.rework_added = None
            THEN [acc EXCEPT !.rework_added = Some(event_time)]
        ELSE IF Val(event.label) = LABEL_IN_REVIEW /\ acc.in_review_added = None
            THEN [acc EXCEPT !.in_review_added = Some(event_time)]
        ELSE IF Val(event.label) = LABEL_REWORK_DONE /\ acc.rework_done_added = None
            THEN [acc EXCEPT !.rework_done_added = Some(event_time)]
        ELSE acc

\* Lines 65-78: one event's effect on the three "first add" timestamps.
ScanEvent(acc, event) ==
    LET event_time == fromisoformat(event.created_at)
    IN  IF event.label = None THEN acc
        ELSE IF event.action # "add" THEN acc
        ELSE IF Val(event.label) = LABEL_REWORK /\ acc.rework_added = None
            THEN [acc EXCEPT !.rework_added = Some(event_time)]
        ELSE IF Val(event.label) = LABEL_IN_REVIEW /\ acc.in_review_added = None
            THEN [acc EXCEPT !.in_review_added = Some(event_time)]
        ELSE IF Val(event.label) = LABEL_REWORK_DONE /\ acc.rework_done_added = None
            THEN [acc EXCEPT !.rework_done_added = Some(event_time)]
        ELSE acc

\* Lines 59-78: the loop over the events, in the order of the feed.
RECURSIVE ScanEvents(_, _, _)
ScanEvents(acc, events, i) ==
    IF i > Len(events) THEN acc
    ELSE ScanEvents(ScanEvent(acc, events[i]), events, i + 1)

\* No exception raised.
NoExc == ""

NoTimes == [exc |-> NoExc, time_in_rework |-> None, time_in_review |-> None,
            time_to_complete |-> None]

\* The reducer reading a clock that only shows the hour.
calculate_time_in_stateHourClock(mr, events, now) ==
    IF events = <<>> THEN NoTimes
    ELSE IF mr.created_at = None THEN [NoTimes EXCEPT !.exc = "AttributeError"]
    ELSE
      LET created_at == fromisoformat(Val(mr.created_at))
          acc == ScanEvents([rework_added |-> None, in_review_added |-> None,
                             rework_done_added |-> None], events, 1)
      IN  [exc |-> NoExc,
           time_in_rework |->
              IF acc.rework_added # None /\ acc.rework_done_added # None
              THEN Some(HoursOf(Val(acc.rework_done_added) - Val(acc.rework_added)))
              ELSE None,
           time_in_review |->
              IF acc.in_review_added # None
              THEN IF acc.rework_done_added # None
                   THEN Some(HoursOf(Val(acc.rework_done_added) - Val(acc.in_review_added)))
                   ELSE Some(HoursOf((now - (now % 3600)) - Val(acc.in_review_added)))
              ELSE None,
           time_to_complete |->
              IF acc.rework_done_added # None
              THEN Some(HoursOf(Val(acc.rework_done_added) - created_at))
              ELSE None]

(***************************************************************************)
(* calculate_time_in_state(mr, project_id), lines 52-98.  `events` is what  *)
(* get_mr_label_events returned (the empty list when the call failed) and   *)
(* `now` is the reading of datetime.now() at line 89.  A null created_at    *)
(* of the merge request raises at line 62 (None has no replace()).          *)
(***************************************************************************)
calculate_time_in_state(mr, events, now) ==
    IF events = <<>> THEN NoTimes
    ELSE IF mr.created_at = None THEN [NoTimes EXCEPT !.exc = "AttributeError"]
    ELSE
      LET created_at == fromisoformat(Val(mr.created_at))
          acc == ScanEvents([rework_added |-> None, in_review_added |-> None,
                             rework_done_added |-> None], events, 1)
      IN  [exc |-> NoExc,
           time_in_rework |->
              IF acc.rework_added # None /\ acc.rework_done_added # None
              THEN Some(HoursOf(Val(acc.rework_done_added) - Val(acc.rework_added)))
              ELSE None,
           time_in_review |->
              IF acc.in_review_added # None
              THEN IF acc.rework_done_added # None
                   THEN Some(HoursOf(Val(acc.rework_done_added) - Val(acc.in_review_added)))
                   ELSE Some(HoursOf(now - Val(acc.in_review_added)))
              ELSE None,
           time_to_complete |->
              IF acc.rework_done_added # None
              THEN Some(HoursOf(Val(acc.rework_done_added) - created_at))
              ELSE None]

(***************************************************************************)
(* config.py (not part of the sources at hand): the monitored names, the    *)
(* identity, and a mail transport that is configured.                       *)
(***************************************************************************)
REPOSITORIES == <<"alpha", "beta">>

YOUR_EMAIL == [user |-> "me", domain |-> "example.com"]

SMTP_CONFIGURED == TRUE

\* config.YOUR_EMAIL.split("@")[0]
EmailUser(email) == email.user

(***************************************************************************)
(* Program constants.                                                      *)
(***************************************************************************)
WINDOW == 10

TIMEOUT == 10

TITLE_LIMIT == 50

(***************************************************************************)
(* Bounds of the server model: the threads a server may run handlers in,    *)
(* the connections that may wait in the listen backlog, and how long the    *)
(* clock runs, in freshness windows.                                        *)
(***************************************************************************)
NSlots == 2

MaxBacklog == 1

MaxWindows == 2

\* The tracking-API calls that may fail in one run.
MaxFailures == 1

Slots == 1..NSlots

\* The process starts long after the epoch (time.time() is far above WINDOW)
\* and after the last event of the tracking API's data.
StartTime == 14400

EndTime == StartTime + MaxWindows * WINDOW

\* A tracking-API call returns at once (within the clock's resolution) or
\* after the full request timeout of line 21.
CallDurations == {0, TIMEOUT}

(***************************************************************************)
(* Strings that the renderer edits are kept as tuples of characters.        *)
(***************************************************************************)
QUOTE == "\""

BACKSLASH == "\\"

\* str.replace('"', '\\"')
RECURSIVE EscapeQuotes(_)
EscapeQuotes(s) ==
    IF s = <<>> THEN <<>>
    ELSE (IF Head(s) = QUOTE THEN <<BACKSLASH, QUOTE>> ELSE <<Head(s)>>)
         \o EscapeQuotes(Tail(s))

\* s[:n]
Truncate(s, n) == IF Len(s) <= n THEN s ELSE SubSeq(s, 1, n)

(***************************************************************************)
(* The tracking API's data.  A project dict: id, path (None when the key is *)
(* missing), name, path_with_namespace.                                     *)
(***************************************************************************)
Project(id, path, name, pwn) ==
    [id |-> id, path |-> path, name |-> name, path_with_namespace |-> pwn]

P1 == Project(1, Some("alpha"), "alpha", "g/alpha")
P2 == Project(2, Some("beta"), "beta", "g/beta")
\* One project that both configured names match: by path and by name.
P3 == Project(3, Some("alpha"), "beta", "h/alpha")
\* A search hit that matches no configured name exactly.
P5 == Project(5, Some("alphabet"), "alphabet", "g/alphabet")
\* A project dict without the key 'path'.
PBad == Project(4, None, "beta", "g/bad")

T0 == Iso(0, 0)
T1 == Iso(3600, 0)
T2 == Iso(7200, 0)
\* The instant 10800 written with a UTC offset of one hour.
T3 == Iso(14400, 3600)

(***************************************************************************)
(* A merge-request dict.  title and created_at are None when the JSON       *)
(* value is null.                                                           *)
(***************************************************************************)
MR(iid, title, branch, labels, assignees, created_at) ==
    [iid |-> iid, title |-> title, source_branch |-> branch,
     target_branch |-> <<"m", "a", "i", "n">>, labels |-> labels,
     assignees |-> assignees, created_at |-> created_at, web_url |-> iid]

M1 == MR(1, Some(<<"f", "i", "x">>), <<"f", "1">>, {LABEL_REWORK}, {"me"}, Some(T0))
M2 == MR(2, Some(<<"a", QUOTE, "b">>), <<"f", "2">>, {}, {"bob"}, Some(T0))
M4 == MR(4, Some(<<"d", "o", "c">>), <<"f", "4">>, {LABEL_REWORK, LABEL_IN_REVIEW},
         {"me", "bob"}, Some(T1))
\* A merge request whose title is null.
MNull == MR(6, None, <<"f", "6">>, {LABEL_REWORK_DONE}, {}, Some(T0))

LogReworked ==
    << Event(T1, Some(LABEL_REWORK), "add"),
       Event(T2, Some(LABEL_REWORK), "remove"),
       Event(T3, Some(LABEL_REWORK_DONE), "add") >>

LogInReview == << Event(T2, Some(LABEL_IN_REVIEW), "add") >>

(***************************************************************************)
(* The states the tracking API is in: what each endpoint returns when the   *)
(* call succeeds.                                                           *)
(***************************************************************************)
Worlds == {"two", "dup", "bad"}

WorldSearch(w, repo_name) ==
    CASE w = "two" /\ repo_name = "alpha" -> <<P5, P1>>
      [] w = "two" /\ repo_name = "beta" -> <<P2>>
      [] w = "dup" -> <<P3>>
      [] w = "bad" /\ repo_name = "alpha" -> <<P1>>
      [] w = "bad" /\ repo_name = "beta" -> <<PBad>>
      [] OTHER -> <<>>

WorldMRs(w, project_id) ==
    CASE w = "two" /\ project_id = 1 -> <<M1, M2>>
      [] w = "two" /\ project_id = 2 -> <<M4>>
      [] w = "dup" /\ project_id = 3 -> <<M1>>
      [] w = "bad" /\ project_id = 1 -> <<MNull>>
      [] OTHER -> <<>>

WorldEvents(w, project_id, mr_iid) ==
    CASE w = "two" /\ mr_iid = 1 -> LogReworked
      [] w = "dup" /\ mr_iid = 1 -> LogInReview
      [] OTHER -> <<>>

\* gitlab_api letting the exception of a failed call through.
gitlab_apiRaising(ok, json) ==
    [exc |-> IF ok THEN NoExc ELSE "RequestException",
     value |-> IF ok THEN json ELSE <<>>]

(***************************************************************************)
(* gitlab_api(endpoint), lines 16-26.  `ok` says whether requests.get,      *)
(* raise_for_status and json() all went through; `json` is the decoded      *)
(* body.  Any exception is caught and the empty list returned.              *)
(***************************************************************************)
gitlab_api(ok, json) ==
    [exc |-> NoExc, value |-> IF ok THEN json ELSE <<>>]

(***************************************************************************)
(* get_all_projects, lines 31-41: one iteration of the loop over the        *)
(* configured names.  `result` is what the search returned.  The first      *)
(* project whose path or name is the configured name is taken; proj['path'] *)
(* raises KeyError on a dict without that key.                              *)
(***************************************************************************)
RECURSIVE FirstMatch(_, _, _)
FirstMatch(result, repo_name, i) ==
    IF i > Len(result) THEN [exc |-> NoExc, found |-> <<>>]
    ELSE IF result[i].path = None THEN [exc |-> "KeyError", found |-> <<>>]
    ELSE IF Val(result[i].path) = repo_name \/ result[i].name = repo_name
         THEN [exc |-> NoExc, found |-> <<result[i]>>]
    ELSE FirstMatch(result, repo_name, i + 1)

(***************************************************************************)
(* An insertion-ordered dict as a tuple of [key, val] pairs.                *)
(***************************************************************************)
DictHas(d, k) == \E i \in 1..Len(d) : d[i].key = k

DictGet(d, k) == d[CHOOSE i \in 1..Len(d) : d[i].key = k].val

DictSet(d, k, v) ==
    IF DictHas(d, k)
    THEN [i \in 1..Len(d) |-> IF d[i].key = k THEN [key |-> k, val |-> v] ELSE d[i]]
    ELSE Append(d, [key |-> k, val |-> v])

\* Lines 140-144: the five counters of a project, all zero.
ZeroCounters ==
    [total_mrs |-> 0, rework_mrs |-> 0, rework_assigned_to_me |-> 0,
     in_review_mrs |-> 0, rework_done_mrs |-> 0]

\* bool(x) as 0 or 1
Bit(b) == IF b THEN 1 ELSE 0

\* Lines 178-183: is the merge request rework assigned to the configured identity.
ReworkMine(mr) == LABEL_REWORK \in mr.labels /\ EmailUser(YOUR_EMAIL) \in mr.assignees

\* Lines 157 and 178-195: one merge request's effect on its project's counters.
CountItem(c, mr) ==
    [total_mrs |-> c.total_mrs + 1,
     rework_mrs |-> c.rework_mrs + Bit(LABEL_REWORK \in mr.labels),
     rework_assigned_to_me |-> c.rework_assigned_to_me + Bit(ReworkMine(mr)),
     in_review_mrs |-> c.in_review_mrs + Bit(LABEL_IN_REVIEW \in mr.labels),
     rework_done_mrs |-> c.rework_done_mrs + Bit(LABEL_REWORK_DONE \in mr.labels)]

\* `x or 0` on an optional number of hours
OrZero(d) == IF Truthy(d) THEN Val(d) ELSE HoursOf(0)

\* Lines 163-174: the per-item record.
BranchData(project_name, mr, times) ==
    [project |-> project_name, branch |-> mr.source_branch,
     target_branch |-> mr.target_branch, mr_title |-> mr.title,
     time_in_rework |-> OrZero(times.time_in_rework),
     time_in_review |-> OrZero(times.time_in_review),
     time_to_complete |-> OrZero(times.time_to_complete),
     has_rework |-> LABEL_REWORK \in mr.labels,
     has_in_review |-> LABEL_IN_REVIEW \in mr.labels,
     has_rework_done |-> LABEL_REWORK_DONE \in mr.labels]

\* Lines 184-189: the entry of rework_mrs.
ReworkEntry(project_name, mr) ==
    [title |-> mr.title, url |-> mr.web_url, created |-> mr.created_at,
     project |-> project_name]

(***************************************************************************)
(* The cache, lines 11-14: no last_rework_count key until the first store.  *)
(***************************************************************************)
EmptyData == [project_metrics |-> <<>>, branch_metrics |-> <<>>]

InitCache == [last_update |-> 0, data |-> EmptyData, last_rework_count |-> None]

\* metrics_cache.get("last_rework_count", 0)
LastReworkCount(cache) ==
    IF cache.last_rework_count = None THEN 0 ELSE Val(cache.last_rework_count)

\* The freshness test with a window of no length.
FreshZeroWindow(now, cache) == now - cache.last_update < 0

\* Line 124: the freshness test.
Fresh(now, cache) == now - cache.last_update < WINDOW

\* The alert gate opening again on an unchanged count.
ShouldNotifyAgain(n, last) == n # 0 /\ last <= n

\* Line 198: the alert gate, on len(rework_mrs) and the last notified count.
ShouldNotify(n, last) == n # 0 /\ last < n

\* send_email_alert letting a transport error through.
send_email_alertRaising(configured, transport_ok) ==
    [exc |-> IF configured /\ ~transport_ok THEN "SMTPException" ELSE NoExc,
     outcome |-> IF ~configured THEN "skipped"
                 ELSE IF transport_ok THEN "sent" ELSE "failed"]

(***************************************************************************)
(* send_email_alert, lines 100-117: nothing is attempted when the mail      *)
(* settings are missing; a transport error is caught.  The result is what   *)
(* happened to the message; the function never raises.                      *)
(***************************************************************************)
send_email_alert(configured, transport_ok) ==
    [exc |-> NoExc,
     outcome |-> IF ~configured THEN "skipped"
                 ELSE IF transport_ok THEN "sent" ELSE "failed"]

(***************************************************************************)
(* The exposition text, lines 225-272, one record per line.                 *)
(***************************************************************************)
Comment(kind, name) == [comment |-> kind, name |-> name]

Sample(name, labels, value) == [name |-> name, labels |-> labels, value |-> value]

\* An integer printed as it is.
IntValue(n) == [d |-> n]

(***************************************************************************)
(* f"{x:.2f}" of a positive number of hours x (lines 266, 269, 272): the    *)
(* hundredths nearest to the binary float x.  The float is the double       *)
(* nearest to the quotient seconds / 3600, so it is on the same side of     *)
(* every halfway point as the quotient, unless the quotient is itself a     *)
(* halfway point k/100 + 1/200 = (2k+1)/200.  Then, with 2^L <= x < 2^(L+1),*)
(* the double is a multiple of 2^(L-52) and x is (2k+1) * 2^(49-L) / 25 of  *)
(* these units: the remainder of that numerator by 25 says whether the      *)
(* double lies below x (printed k hundredths) or above (k+1).  When 25      *)
(* divides 2k+1 the float is x exactly and the even hundredth is printed.   *)
(***************************************************************************)
RECURSIVE Log2Floor(_, _)
Log2Floor(a, b) ==
    IF a >= 2 * b THEN Log2Floor(a, 2 * b) + 1
    ELSE IF a < b THEN Log2Floor(2 * a, b) - 1
    ELSE 0

RECURSIVE Pow2Mod25(_)
Pow2Mod25(n) == IF n = 0 THEN 1 ELSE (2 * Pow2Mod25(n - 1)) % 25

\* Is the double nearest to odd/200 below it.
FloatBelow(odd) ==
    ((odd % 25) * Pow2Mod25((49 - Log2Floor(odd, 200)) % 20)) % 25 <= 12

Fixed2(h) ==
    LET k == (100 * h.num) \div h.den
        twice == 200 * h.num - 2 * k * h.den
    IN  [cents |->
            IF twice < h.den THEN k
            ELSE IF twice > h.den THEN k + 1
            ELSE IF (2 * k + 1) % 25 = 0 THEN (IF k % 2 = 0 THEN k ELSE k + 1)
            ELSE IF FloatBelow(2 * k + 1) THEN k
            ELSE k + 1]

MetricNames ==
    << "gitlab_merge_requests_total", "gitlab_rework_mrs",
       "gitlab_rework_assigned_to_me", "gitlab_in_review_mrs",
       "gitlab_rework_done_mrs", "gitlab_mr_info",
       "gitlab_mr_time_in_rework_hours", "gitlab_mr_time_in_review_hours",
       "gitlab_mr_time_to_complete_hours" >>

\* Lines 225-244: a HELP and a TYPE line per metric.
HeaderLines ==
    [i \in 1..(2 * Len(MetricNames)) |->
        Comment(IF i % 2 = 1 THEN "HELP" ELSE "TYPE", MetricNames[(i + 1) \div 2])]

\* The renderer leaving out the projects that have no open item.
ProjectLinesNonEmpty(project, stats) ==
    LET l == [project |-> project]
    IN  IF stats.total_mrs = 0 THEN <<>>
        ELSE << Sample("gitlab_merge_requests_total", l, IntValue(stats.total_mrs)),
                Sample("gitlab_rework_mrs", l, IntValue(stats.rework_mrs)),
                Sample("gitlab_rework_assigned_to_me", l, IntValue(stats.rework_assigned_to_me)),
                Sample("gitlab_in_review_mrs", l, IntValue(stats.in_review_mrs)),
                Sample("gitlab_rework_done_mrs", l, IntValue(stats.rework_done_mrs)) >>

\* Lines 248-252: the five counter lines of one project.
ProjectLines(project, stats) ==
    LET l == [project |-> project]
    IN  << Sample("gitlab_merge_requests_total", l, IntValue(stats.total_mrs)),
           Sample("gitlab_rework_mrs", l, IntValue(stats.rework_mrs)),
           Sample("gitlab_rework_assigned_to_me", l, IntValue(stats.rework_assigned_to_me)),
           Sample("gitlab_in_review_mrs", l, IntValue(stats.in_review_mrs)),
           Sample("gitlab_rework_done_mrs", l, IntValue(stats.rework_done_mrs)) >>

\* The renderer with a timing line for every value that is not negative.
BranchLinesFromZero(branch_data) ==
    LET l == [project |-> branch_data.project,
              branch |-> EscapeQuotes(branch_data.branch),
              target |-> EscapeQuotes(branch_data.target_branch),
              title |-> Truncate(EscapeQuotes(Val(branch_data.mr_title)), TITLE_LIMIT)]
    IN  << Sample("gitlab_mr_info", l, IntValue(1)) >>
        \o (IF branch_data.time_in_rework.num >= 0
            THEN << Sample("gitlab_mr_time_in_rework_hours", l,
                           Fixed2(branch_data.time_in_rework)) >>
            ELSE <<>>)
        \o (IF branch_data.time_in_review.num >= 0
            THEN << Sample("gitlab_mr_time_in_review_hours", l,
                           Fixed2(branch_data.time_in_review)) >>
            ELSE <<>>)
        \o (IF branch_data.time_to_complete.num >= 0
            THEN << Sample("gitlab_mr_time_to_complete_hours", l,
                           Fixed2(branch_data.time_to_complete)) >>
            ELSE <<>>)

\* The renderer showing only the items that carry a watched label.
BranchLinesFlaggedOnly(branch_data) ==
    IF branch_data.has_rework \/ branch_data.has_in_review \/ branch_data.has_rework_done
    THEN BranchLinesFromZero(branch_data)
    ELSE <<>>

\* Lines 256-272: the info line of one record and its timing lines.
BranchLines(branch_data) ==
    LET l == [project |-> branch_data.project,
              branch |-> EscapeQuotes(branch_data.branch),
              target |-> EscapeQuotes(branch_data.target_branch),
              title |-> Truncate(EscapeQuotes(Val(branch_data.mr_title)), TITLE_LIMIT)]
    IN  << Sample("gitlab_mr_info", l, IntValue(1)) >>
        \o (IF branch_data.time_in_rework.num > 0
            THEN << Sample("gitlab_mr_time_in_rework_hours", l,
                           Fixed2(branch_data.time_in_rework)) >>
            ELSE <<>>)
        \o (IF branch_data.time_in_review.num > 0
            THEN << Sample("gitlab_mr_time_in_review_hours", l,
                           Fixed2(branch_data.time_in_review)) >>
            ELSE <<>>)
        \o (IF branch_data.time_to_complete.num > 0
            THEN << Sample("gitlab_mr_time_to_complete_hours", l,
                           Fixed2(branch_data.time_to_complete)) >>
            ELSE <<>>)

RECURSIVE AllProjectLines(_, _)
AllProjectLines(project_metrics, i) ==
    IF i > Len(project_metrics) THEN <<>>
    ELSE ProjectLines(project_metrics[i].key, project_metrics[i].val)
         \o AllProjectLines(project_metrics, i + 1)

RECURSIVE AllBranchLines(_, _)
AllBranchLines(branch_metrics, i) ==
    IF i > Len(branch_metrics) THEN <<>>
    ELSE BranchLines(branch_metrics[i]) \o AllBranchLines(branch_metrics, i + 1)

(***************************************************************************)
(* Lines 222-272: the body of the response.  A record whose title is None   *)
(* raises at line 259 (None has no replace()).                              *)
(***************************************************************************)
RenderLines(data) ==
    IF \E i \in 1..Len(data.branch_metrics) : data.branch_metrics[i].mr_title = None
    THEN [exc |-> "AttributeError", lines |-> <<>>]
    ELSE [exc |-> NoExc,
          lines |-> HeaderLines \o AllProjectLines(data.project_metrics, 1)
                    \o AllBranchLines(data.branch_metrics, 1)]

(***************************************************************************)
(* One handler thread.  pc is where do_GET stands:                          *)
(*   idle        no request is being handled                                *)
(*   search      get_all_projects, before the search of REPOSITORIES[repo_i]*)
(*   mrs         line 135, before the item list of projects[proj_i]         *)
(*   item        line 148, before the event log of mrs[mr_i]                *)
(*   notify      line 197                                                   *)
(*   store_data  line 204, store_time line 210, store_count line 211        *)
(*   render      line 222, collect_metrics has returned `data`              *)
(*   error       line 278, an exception reached the handler                 *)
(*   done        the response is written                                    *)
(* The other fields are the locals of collect_metrics and do_GET, and three *)
(* history fields: arrived_in (the refresh that ran when the request        *)
(* arrived: "none", "running" or "stored"), entry (the cache as collect_metrics found it), calls and       *)
(* failed (the tracking-API calls made for this request, and those that     *)
(* failed).                                                                  *)
(***************************************************************************)
IdleHandler ==
    [pc |-> "idle", arrived_in |-> "none", now |-> 0, entry |-> InitCache,
     calls |-> 0, failed |-> {}, repo_i |-> 0, projects |-> <<>>, proj_i |-> 0,
     mrs |-> <<>>, mr_i |-> 0, metrics |-> <<>>, branch_metrics |-> <<>>,
     rework_mrs |-> <<>>, alert |-> "none", data |-> EmptyData,
     exc |-> NoExc, exc_in |-> "", status |-> 0, body |-> <<>>]

RefreshPcs == {"search", "mrs", "item", "notify", "store_data", "store_time", "store_count"}

ActivePcs == RefreshPcs \cup {"render", "error", "done"}

\* The handlers that are running the Collector.
Refreshing == {s \in Slots : handler[s].pc \in RefreshPcs}

\* A server that hands every request to a thread of its own.
ServerIdleThreaded == TRUE

(***************************************************************************)
(* Lines 299-300: HTTPServer.serve_forever handles one request at a time,   *)
(* in the thread that accepted it; the next one is taken when do_GET has    *)
(* returned.                                                                *)
(***************************************************************************)
ServerIdle == \A t \in Slots : handler[t].pc \notin ActivePcs

Init ==
    /\ clock = StartTime
    /\ upstream \in Worlds
    /\ metrics_cache = InitCache
    /\ backlog = <<>>
    /\ handler = [s \in Slots |-> IdleHandler]
    /\ written = [data |-> 0, count |-> 0]
    /\ last_alert = "none"
    /\ failures = 0
    /\ red = [mr |-> M1, events |-> <<>>, now |-> 0, done |-> FALSE, out |-> NoTimes]

\* A call may fail while the run has failures left.
MayFail(ok) == ok \/ failures < MaxFailures

(***************************************************************************)
(* A client connects and sends its request: the connection waits in the     *)
(* listen backlog.  What is kept of it is the refresh that runs at that     *)
(* moment: "none", or "running", which becomes "stored" when that refresh   *)
(* stores its result and "none" when it raises.                             *)
(***************************************************************************)
Arrive ==
    /\ Len(backlog) < MaxBacklog
    /\ backlog' = Append(backlog, IF Refreshing # {} THEN "running" ELSE "none")
    /\ UNCHANGED <<clock, upstream, metrics_cache, handler, written, last_alert, failures, red>>

\* The refresh that ran when the waiting requests arrived has ended.
Settle(queue, how) ==
    [i \in 1..Len(queue) |-> IF queue[i] = "running" THEN how ELSE queue[i]]

\* The backlog after a step of the refresh of s.
AfterStep(s) ==
    IF handler'[s].pc = "error" THEN Settle(backlog, "none") ELSE backlog

\* An exception leaves collect_metrics or the rendering for line 278.
Raise(h, exc, where) == [h EXCEPT !.pc = "error", !.exc = exc, !.exc_in = where]

\* After the last item of a project: the next project, or line 197.
NextProject(h) ==
    IF h.proj_i < Len(h.projects)
    THEN [h EXCEPT !.pc = "mrs", !.proj_i = h.proj_i + 1, !.mrs = <<>>, !.mr_i = 0]
    ELSE [h EXCEPT !.pc = "notify", !.mrs = <<>>, !.mr_i = 0]

\* do_GET with collect_metrics stamping the cache when the collection starts.
DoGetStampEarly(s, path) ==
    /\ backlog # <<>>
    /\ ServerIdle
    /\ handler[s].pc = "idle"
    /\ \A t \in Slots : t < s => handler[t].pc # "idle"
    /\ backlog' = Tail(backlog)
    /\ LET h == [IdleHandler EXCEPT !.arrived_in = Head(backlog)]
           now == clock
       IN  handler' = [handler EXCEPT ![s] =
              IF path # "/metrics"
              THEN [h EXCEPT !.pc = "done", !.status = 404]
              ELSE IF Fresh(now, metrics_cache)
              THEN [h EXCEPT !.pc = "render", !.now = now, !.entry = metrics_cache,
                             !.data = metrics_cache.data]
              ELSE [h EXCEPT !.pc = "search", !.now = now, !.entry = metrics_cache,
                             !.repo_i = 1]]
    /\ metrics_cache' = IF path = "/metrics" /\ ~Fresh(clock, metrics_cache)
                        THEN [metrics_cache EXCEPT !.last_update = clock]
                        ELSE metrics_cache
    /\ UNCHANGED <<clock, upstream, written, last_alert, failures, red>>

(***************************************************************************)
(* do_GET, lines 218-221 and 282-284, with collect_metrics lines 121-133:   *)
(* another path is answered 404; a fresh cache is returned as it is;        *)
(* otherwise the collection starts.                                         *)
(***************************************************************************)
DoGet(s, path) ==
    /\ backlog # <<>>
    /\ ServerIdle
    /\ handler[s].pc = "idle"
    /\ \A t \in Slots : t < s => handler[t].pc # "idle"
    /\ backlog' = Tail(backlog)
    /\ LET h == [IdleHandler EXCEPT !.arrived_in = Head(backlog)]
           now == clock
       IN  handler' = [handler EXCEPT ![s] =
              IF path # "/metrics"
              THEN [h EXCEPT !.pc = "done", !.status = 404]
              ELSE IF Fresh(now, metrics_cache)
              THEN [h EXCEPT !.pc = "render", !.now = now, !.entry = metrics_cache,
                             !.data = metrics_cache.data]
              ELSE [h EXCEPT !.pc = "search", !.now = now, !.entry = metrics_cache,
                             !.repo_i = 1]]
    /\ UNCHANGED <<clock, upstream, metrics_cache, written, last_alert, failures, red>>

(***************************************************************************)
(* get_all_projects, lines 31-41: the search for one configured name,       *)
(* taking d seconds.                                                        *)
(***************************************************************************)
Search(s, ok, d) ==
    /\ handler[s].pc = "search"
    /\ clock + d <= EndTime
    /\ MayFail(ok)
    /\ LET h0 == handler[s]
           h == [h0 EXCEPT !.calls = h0.calls + 1,
                           !.failed = IF ok THEN h0.failed
                                      ELSE h0.failed \cup {<<"search", h0.repo_i, 0>>}]
           repo_name == REPOSITORIES[h.repo_i]
           api == gitlab_api(ok, WorldSearch(upstream, repo_name))
           m == IF api.exc # NoExc THEN [exc |-> api.exc, found |-> <<>>]
                ELSE FirstMatch(api.value, repo_name, 1)
           projects == h.projects \o m.found
       IN  handler' = [handler EXCEPT ![s] =
              IF m.exc # NoExc THEN Raise(h, m.exc, "collect")
              ELSE IF h.repo_i < Len(REPOSITORIES)
              THEN [h EXCEPT !.projects = projects, !.repo_i = h.repo_i + 1]
              ELSE IF projects = <<>>
              THEN [h EXCEPT !.projects = projects, !.pc = "notify"]
              ELSE [h EXCEPT !.projects = projects, !.pc = "mrs", !.proj_i = 1]]
    /\ clock' = clock + d
    /\ backlog' = AfterStep(s)
    /\ failures' = failures + Bit(~ok)
    /\ UNCHANGED <<upstream, metrics_cache, written, last_alert, red>>

(***************************************************************************)
(* Lines 135-146: the counters of the project are set to zero and its open  *)
(* items fetched, taking d seconds.                                         *)
(***************************************************************************)
GetMRs(s, ok, d) ==
    /\ handler[s].pc = "mrs"
    /\ clock + d <= EndTime
    /\ MayFail(ok)
    /\ LET h0 == handler[s]
           h == [h0 EXCEPT !.calls = h0.calls + 1,
                           !.failed = IF ok THEN h0.failed
                                      ELSE h0.failed \cup {<<"mrs", h0.proj_i, 0>>}]
           project == h.projects[h.proj_i]
           project_name == project.path_with_namespace
           metrics == DictSet(h.metrics, project_name, ZeroCounters)
           api == gitlab_api(ok, WorldMRs(upstream, project.id))
       IN  handler' = [handler EXCEPT ![s] =
              IF api.exc # NoExc THEN Raise(h, api.exc, "collect")
              ELSE IF api.value = <<>>
              THEN NextProject([h EXCEPT !.metrics = metrics])
              ELSE [h EXCEPT !.metrics = metrics, !.mrs = api.value,
                             !.pc = "item", !.mr_i = 1]]
    /\ clock' = clock + d
    /\ backlog' = AfterStep(s)
    /\ failures' = failures + Bit(~ok)
    /\ UNCHANGED <<upstream, metrics_cache, written, last_alert, red>>

(***************************************************************************)
(* Lines 148-195: one item of the project: its event log is fetched, taking *)
(* d seconds, and reduced; its record is appended and the counters updated. *)
(***************************************************************************)
Item(s, ok, d) ==
    /\ handler[s].pc = "item"
    /\ clock + d <= EndTime
    /\ MayFail(ok)
    /\ LET h0 == handler[s]
           h == [h0 EXCEPT !.calls = h0.calls + 1,
                           !.failed = IF ok THEN h0.failed
                                      ELSE h0.failed \cup {<<"events", h0.proj_i, h0.mr_i>>}]
           project == h.projects[h.proj_i]
           project_name == project.path_with_namespace
           mr == h.mrs[h.mr_i]
           api == gitlab_api(ok, WorldEvents(upstream, project.id, mr.iid))
           times == IF api.exc # NoExc THEN [NoTimes EXCEPT !.exc = api.exc]
                    ELSE calculate_time_in_state(mr, api.value, clock + d)
           h1 == [h EXCEPT
                    !.metrics = DictSet(h.metrics, project_name,
                                        CountItem(DictGet(h.metrics, project_name), mr)),
                    !.branch_metrics = Append(h.branch_metrics,
                                              BranchData(project_name, mr, times)),
                    !.rework_mrs = IF ReworkMine(mr)
                                   THEN Append(h.rework_mrs, ReworkEntry(project_name, mr))
                                   ELSE h.rework_mrs]
       IN  handler' = [handler EXCEPT ![s] =
              IF times.exc # NoExc THEN Raise(h, times.exc, "collect")
              ELSE IF h.mr_i < Len(h.mrs)
              THEN [h1 EXCEPT !.mr_i = h.mr_i + 1]
              ELSE NextProject(h1)]
    /\ clock' = clock + d
    /\ backlog' = AfterStep(s)
    /\ failures' = failures + Bit(~ok)
    /\ UNCHANGED <<upstream, metrics_cache, written, last_alert, red>>

(***************************************************************************)
(* Lines 197-202: the alert, when the count of rework items assigned to     *)
(* the identity is above the last notified count.                           *)
(***************************************************************************)
Notify(s, transport_ok) ==
    /\ handler[s].pc = "notify"
    /\ LET h == handler[s]
           mail == IF ShouldNotify(Len(h.rework_mrs), LastReworkCount(metrics_cache))
                   THEN send_email_alert(SMTP_CONFIGURED, transport_ok)
                   ELSE [exc |-> NoExc, outcome |-> "none"]
       IN  handler' = [handler EXCEPT ![s] =
              IF mail.exc # NoExc THEN Raise([h EXCEPT !.alert = "failed"], mail.exc, "collect")
              ELSE [h EXCEPT !.alert = mail.outcome, !.pc = "store_data"]]
    /\ backlog' = AfterStep(s)
    /\ UNCHANGED <<clock, upstream, metrics_cache, written, last_alert, failures, red>>

\* Lines 204-209: the result is built and stored.
StoreData(s) ==
    /\ handler[s].pc = "store_data"
    /\ LET h == handler[s]
           result == [project_metrics |-> h.metrics, branch_metrics |-> h.branch_metrics]
       IN  /\ metrics_cache' = [metrics_cache EXCEPT !.data = result]
           /\ handler' = [handler EXCEPT ![s] = [h EXCEPT !.data = result, !.pc = "store_time"]]
           /\ written' = [written EXCEPT !.data = h.now]
    /\ UNCHANGED <<clock, upstream, backlog, last_alert, failures, red>>

\* Line 210.
StoreTime(s) ==
    /\ handler[s].pc = "store_time"
    /\ metrics_cache' = [metrics_cache EXCEPT !.last_update = handler[s].now]
    /\ handler' = [handler EXCEPT ![s].pc = "store_count"]
    /\ UNCHANGED <<clock, upstream, backlog, written, last_alert, failures, red>>

\* Lines 211-213.
StoreCount(s) ==
    /\ handler[s].pc = "store_count"
    /\ metrics_cache' = [metrics_cache EXCEPT
                            !.last_rework_count = Some(Len(handler[s].rework_mrs))]
    /\ handler' = [handler EXCEPT ![s].pc = "render"]
    /\ written' = [written EXCEPT !.count = handler[s].now]
    /\ last_alert' = handler[s].alert
    /\ backlog' = Settle(backlog, "stored")
    /\ UNCHANGED <<clock, upstream, failures, red>>

\* Lines 222-277: the body is rendered and the response 200 written.
Render(s) ==
    /\ handler[s].pc = "render"
    /\ LET h == handler[s]
           r == RenderLines(h.data)
       IN  handler' = [handler EXCEPT ![s] =
              IF r.exc # NoExc THEN Raise(h, r.exc, "render")
              ELSE [h EXCEPT !.pc = "done", !.status = 200, !.body = r.lines]]
    /\ UNCHANGED <<clock, upstream, metrics_cache, backlog, written, last_alert, failures, red>>

\* Lines 278-281: the response 500, with no body.
Except(s) ==
    /\ handler[s].pc = "error"
    /\ handler' = [handler EXCEPT ![s] = [handler[s] EXCEPT !.pc = "done", !.status = 500]]
    /\ UNCHANGED <<clock, upstream, metrics_cache, backlog, written, last_alert, failures, red>>

\* do_GET returns and the connection is closed.
Finish(s) ==
    /\ handler[s].pc = "done"
    /\ handler' = [handler EXCEPT ![s] = IdleHandler]
    /\ UNCHANGED <<clock, upstream, metrics_cache, backlog, written, last_alert, failures, red>>

\* Time passes while the server waits for a request (a request that waits is
\* taken at once by a server that handles none).
Elapse ==
    /\ ServerIdle
    /\ backlog = <<>>
    /\ clock + WINDOW <= EndTime
    /\ clock' = clock + WINDOW
    /\ UNCHANGED <<upstream, metrics_cache, backlog, handler, written, last_alert, failures, red>>

Next ==
    \/ Arrive
    \/ \E s \in Slots, path \in {"/metrics", "/"} : DoGet(s, path)
    \/ \E s \in Slots, ok \in BOOLEAN, d \in CallDurations : Search(s, ok, d)
    \/ \E s \in Slots, ok \in BOOLEAN, d \in CallDurations : GetMRs(s, ok, d)
    \/ \E s \in Slots, ok \in BOOLEAN, d \in CallDurations : Item(s, ok, d)
    \/ \E s \in Slots, transport_ok \in BOOLEAN : Notify(s, transport_ok)
    \/ \E s \in Slots : StoreData(s)
    \/ \E s \in Slots : StoreTime(s)
    \/ \E s \in Slots : StoreCount(s)
    \/ \E s \in Slots : Render(s)
    \/ \E s \in Slots : Except(s)
    \/ \E s \in Slots : Finish(s)
    \/ Elapse

Spec == Init /\ [][Next]_vars

(***************************************************************************)
(* The reducer on its own: calculate_time_in_state applied to one merge    *)
(* request, one event log of at most MaxEvents events (in any order: the    *)
(* feed's order is not checked) and one reading of the clock.               *)
(***************************************************************************)
ReduceEvents ==
    {Event(ts, Some(l), "add") :
        ts \in {T1, T2, T3}, l \in {LABEL_REWORK, LABEL_IN_REVIEW, LABEL_REWORK_DONE}}
    \cup {Event(T2, Some(l), "remove") : l \in {LABEL_REWORK, LABEL_REWORK_DONE}}
    \cup {Event(T2, None, "add")}

ReduceLogs == UNION {[1..n -> ReduceEvents] : n \in 0..MaxEvents}

ReduceMRs == {M1, [M1 EXCEPT !.created_at = None]}

ReduceNows == {fromisoformat(T3), fromisoformat(T3) + WINDOW}

InitReduce ==
    /\ clock = StartTime
    /\ upstream = "two"
    /\ metrics_cache = InitCache
    /\ backlog = <<>>
    /\ handler = [s \in Slots |-> IdleHandler]
    /\ written = [data |-> 0, count |-> 0]
    /\ last_alert = "none"
    /\ failures = 0
    /\ red \in [mr : ReduceMRs, events : ReduceLogs, now : ReduceNows,
                done : {FALSE}, out : {NoTimes}]

\* The call: `out` is what the function returns (out.exc when it raises).
Reduce ==
    /\ ~red.done
    /\ red' = [red EXCEPT !.done = TRUE,
                          !.out = calculate_time_in_state(red.mr, red.events, red.now)]
    /\ UNCHANGED <<clock, upstream, metrics_cache, backlog, handler, written, last_alert,
                   failures>>

NextReduce == Reduce

SpecReduce == InitReduce /\ [][NextReduce]_vars

\* The positions in `events` of the add events of a label.
Adds(events, label) ==
    {i \in 1..Len(events) :
        events[i].label = Some(label) /\ events[i].action = "add"}

\* The instant of the first add event of a label that has one.
FirstAddTime(events, label) ==
    fromisoformat(events[CHOOSE i \in Adds(events, label) :
                            \A j \in Adds(events, label) : i <= j].created_at)

(***************************************************************************)
(* C9.  First add wins: when the first add of the rework label is at T1 and *)
(* the first add of the rework_done label is at T2 > T1, the reducer returns *)
(* time_in_rework = (T2 - T1) / 3600 hours exactly, whatever other events    *)
(* (removes of either label, later adds) the log holds.                      *)
(***************************************************************************)
C9_FirstAddWins ==
    (/\ red.done
     /\ red.out.exc = NoExc
     /\ Adds(red.events, LABEL_REWORK) # {}
     /\ Adds(red.events, LABEL_REWORK_DONE) # {}
     /\ FirstAddTime(red.events, LABEL_REWORK_DONE) > FirstAddTime(red.events, LABEL_REWORK))
    => red.out.time_in_rework =
          Some(HoursOf(FirstAddTime(red.events, LABEL_REWORK_DONE)
                       - FirstAddTime(red.events, LABEL_REWORK)))

\* A rework add, then a remove of the rework label, then a rework_done add.
C9_Witness ==
    /\ red.done
    /\ red.events = LogReworked
    /\ red.out.time_in_rework = Some(HoursOf(7200))

(***************************************************************************)
(* C10.  A log with no add event of the rework_done label gives no          *)
(* time_in_rework and no time_to_complete.                                  *)
(***************************************************************************)
C10_NoDoneNoTimes ==
    (red.done /\ Adds(red.events, LABEL_REWORK_DONE) = {})
    => (red.out.time_in_rework = None /\ red.out.time_to_complete = None)

\* A log with a rework add and a remove (but no add) of rework_done.
C10_Witness ==
    /\ red.done
    /\ red.out.exc = NoExc
    /\ Adds(red.events, LABEL_REWORK) # {}
    /\ Adds(red.events, LABEL_REWORK_DONE) = {}
    /\ \E i \in 1..Len(red.events) :
          red.events[i].label = Some(LABEL_REWORK_DONE) /\ red.events[i].action = "remove"
    /\ red.out.time_in_rework = None
    /\ red.out.time_to_complete = None

(***************************************************************************)
(* Properties of the server.                                               *)
(***************************************************************************)
StorePcs == {"store_data", "store_time", "store_count"}

\* collect_metrics was called for the request of s and has returned or raised.
Collected(s) ==
    handler[s].pc \in {"render", "error", "done"} /\ handler[s].status # 404

\* collect_metrics has returned a snapshot to do_GET.
Returned(s) == Collected(s) /\ handler[s].exc_in # "collect"

\* The cache entry a collection cycle of s stores, lines 209-211.
EntryOf(s) ==
    [last_update |-> handler[s].now, data |-> handler[s].data,
     last_rework_count |-> Some(Len(handler[s].rework_mrs))]

(***************************************************************************)
(* C1.  Cache hit: a collect_metrics call made less than WINDOW seconds     *)
(* after the stored last-refresh time returns the stored snapshot, makes no *)
(* tracking-API call, sends no notification and leaves the cache entry as   *)
(* it was (so two such calls in a row return the same snapshot).            *)
(***************************************************************************)
C1_CacheHit ==
    \A s \in Slots :
        (Collected(s) /\ handler[s].now - handler[s].entry.last_update < WINDOW)
        => /\ handler[s].data = handler[s].entry.data
           /\ handler[s].calls = 0
           /\ handler[s].alert = "none"
           /\ handler[s].exc_in # "collect"
           /\ metrics_cache = handler[s].entry

\* A scrape answered 200 from a cache that holds records.
C1_Witness ==
    \E s \in Slots :
        /\ handler[s].pc = "done"
        /\ handler[s].status = 200
        /\ handler[s].now - handler[s].entry.last_update < WINDOW
        /\ handler[s].data.branch_metrics # <<>>
        /\ handler[s].calls = 0

(***************************************************************************)
(* C2.  At most one handler runs the refresh part of collect_metrics at any *)
(* time.                                                                    *)
(***************************************************************************)
C2_OneCollector == Cardinality(Refreshing) <= 1

\* A request waits in the backlog while a refresh is in its item loop.
C2_Witness ==
    /\ backlog # <<>>
    /\ \E s \in Slots : handler[s].pc = "item"

(***************************************************************************)
(* C3.  A request that arrived while a refresh was in progress, a refresh   *)
(* that went on to store its result, never runs the Collector itself: it is *)
(* answered from the cache, whatever the time that refresh took.            *)
(***************************************************************************)
C3_NoIndependentRun ==
    \A s \in Slots :
        handler[s].arrived_in = "stored" => handler[s].pc \notin RefreshPcs

(***************************************************************************)
(* C4.  No torn snapshot: whenever a request can be taken from the backlog, *)
(* and whenever a handler holds the snapshot collect_metrics returned, the  *)
(* cache entry is whole (its snapshot, last-refresh time and last-notified  *)
(* count were written by one cycle) and the handler's snapshot is the       *)
(* cache's.                                                                 *)
(***************************************************************************)
CacheWhole ==
    /\ written.data = metrics_cache.last_update
    /\ written.count = metrics_cache.last_update
    /\ (metrics_cache.last_rework_count = None) = (metrics_cache.last_update = 0)

CanAccept == backlog # <<>> /\ ServerIdle

C4_NoTornSnapshot ==
    /\ CanAccept => CacheWhole
    /\ \A s \in Slots :
          Returned(s) => (CacheWhole /\ handler[s].data = metrics_cache.data)

\* A scrape answered from its own refresh, which replaced an earlier entry.
C4_Witness ==
    \E s \in Slots :
        /\ handler[s].pc = "done"
        /\ handler[s].status = 200
        /\ handler[s].calls > 0
        /\ handler[s].entry.last_update > 0
        /\ handler[s].entry.data # metrics_cache.data
        /\ metrics_cache = EntryOf(s)

(***************************************************************************)
(* C5.  Alert gate: a cycle hands a notification to send_email_alert if and *)
(* only if its count of rework items assigned to the identity is above the  *)
(* last notified count the previous cycle left (0 at startup).  For the     *)
(* counts 2, 2, 1, 3 the gate opens on the first and the last cycle only.   *)
(***************************************************************************)
RECURSIVE GateTrace(_, _)
GateTrace(counts, last) ==
    IF counts = <<>> THEN <<>>
    ELSE <<ShouldNotify(Head(counts), last)>> \o GateTrace(Tail(counts), Head(counts))

C5_AlertGate ==
    /\ \A s \in Slots :
          handler[s].pc \in StorePcs
          => ((handler[s].alert # "none")
              <=> (Len(handler[s].rework_mrs) > LastReworkCount(handler[s].entry)))
    /\ GateTrace(<<2, 2, 1, 3>>, 0) = <<TRUE, FALSE, FALSE, TRUE>>

\* A cycle that counts two items after a cycle that counted one, and notifies.
C5_Witness ==
    \E s \in Slots :
        /\ handler[s].pc = "store_count"
        /\ handler[s].alert = "sent"
        /\ Len(handler[s].rework_mrs) = 2
        /\ handler[s].entry.last_rework_count = Some(1)

(***************************************************************************)
(* C6.  A mail-transport failure does not fail the scrape and causes no     *)
(* resend: the cycle whose send failed returns its snapshot and stores it   *)
(* with the current count, and a next cycle with the same count attempts no *)
(* send.                                                                    *)
(***************************************************************************)
C6_MailFailure ==
    \A s \in Slots :
        /\ (handler[s].alert = "failed" /\ handler[s].pc \notin RefreshPcs)
           => (Returned(s) /\ metrics_cache = EntryOf(s))
        /\ (/\ handler[s].pc \in StorePcs
            /\ last_alert = "failed"
            /\ Len(handler[s].rework_mrs) = LastReworkCount(handler[s].entry))
           => handler[s].alert = "none"

\* The cycle after a failed send, with the same count: no attempt.
C6_Witness ==
    \E s \in Slots :
        /\ handler[s].pc = "store_data"
        /\ last_alert = "failed"
        /\ Len(handler[s].rework_mrs) > 0
        /\ Len(handler[s].rework_mrs) = LastReworkCount(handler[s].entry)
        /\ handler[s].alert = "none"

(***************************************************************************)
(* C7.  Fail-soft collection.  What a cycle has collected when its loops    *)
(* are done is told from the tracking API's data and the set of its calls   *)
(* that failed, one call at a time: a failed search drops the project of    *)
(* that name only, a failed item list empties that project only, a failed   *)
(* event log takes the timings of that item only.  So the counters and the  *)
(* records of every other project and item are what they are with no        *)
(* failure; and no failed call raises.  (The counters are compared for the  *)
(* projects whose display name no other resolved project has.)              *)
(***************************************************************************)
RECURSIVE ExpectedProjects(_, _)
ExpectedProjects(h, i) ==
    IF i > Len(REPOSITORIES) THEN <<>>
    ELSE (IF <<"search", i, 0>> \in h.failed THEN <<>>
          ELSE FirstMatch(WorldSearch(upstream, REPOSITORIES[i]), REPOSITORIES[i], 1).found)
         \o ExpectedProjects(h, i + 1)

ExpectedItems(h, j) ==
    IF <<"mrs", j, 0>> \in h.failed THEN <<>>
    ELSE WorldMRs(upstream, h.projects[j].id)

ExpectedEvents(h, j, k) ==
    IF <<"events", j, k>> \in h.failed THEN <<>>
    ELSE WorldEvents(upstream, h.projects[j].id, ExpectedItems(h, j)[k].iid)

\* The places <<j, k>> of the items, project by project.
RECURSIVE ExpectedRefs(_, _)
ExpectedRefs(h, j) ==
    IF j > Len(h.projects) THEN <<>>
    ELSE [k \in 1..Len(ExpectedItems(h, j)) |-> <<j, k>>] \o ExpectedRefs(h, j + 1)

Tally(items) ==
    LET n(P(_)) == Cardinality({k \in 1..Len(items) : P(items[k])})
        IsRework(mr) == LABEL_REWORK \in mr.labels
        IsReview(mr) == LABEL_IN_REVIEW \in mr.labels
        IsDone(mr) == LABEL_REWORK_DONE \in mr.labels
    IN  [total_mrs |-> Len(items), rework_mrs |-> n(IsRework),
         rework_assigned_to_me |-> n(ReworkMine), in_review_mrs |-> n(IsReview),
         rework_done_mrs |-> n(IsDone)]

\* The record of item <<j, k>>, for some reading of the clock within the cycle.
RecordAsExpected(h, rec, j, k) ==
    \E now \in h.now..clock :
        rec = BranchData(h.projects[j].path_with_namespace, ExpectedItems(h, j)[k],
                         calculate_time_in_state(ExpectedItems(h, j)[k],
                                                 ExpectedEvents(h, j, k), now))

UniqueName(h, j) ==
    \A j2 \in 1..Len(h.projects) :
        h.projects[j2].path_with_namespace = h.projects[j].path_with_namespace => j2 = j

C7_FailSoft ==
    \A s \in Slots :
        LET h == handler[s]
            refs == ExpectedRefs(h, 1)
        IN  /\ h.exc \in {NoExc, "KeyError", "AttributeError"}
            /\ h.pc \in ({"notify"} \cup StorePcs)
               => /\ h.projects = ExpectedProjects(h, 1)
                  /\ \A j \in 1..Len(h.projects) :
                        UniqueName(h, j)
                        => /\ DictHas(h.metrics, h.projects[j].path_with_namespace)
                           /\ DictGet(h.metrics, h.projects[j].path_with_namespace)
                              = Tally(ExpectedItems(h, j))
                  /\ Len(h.branch_metrics) = Len(refs)
                  /\ \A n \in 1..Len(refs) :
                        RecordAsExpected(h, h.branch_metrics[n], refs[n][1], refs[n][2])

\* The item list of the first of two projects failed: the second is whole.
C7_Witness ==
    \E s \in Slots :
        /\ upstream = "two"
        /\ handler[s].pc = "notify"
        /\ handler[s].failed = {<<"mrs", 1, 0>>}
        /\ Len(handler[s].projects) = 2
        /\ DictGet(handler[s].metrics, "g/alpha").total_mrs = 0
        /\ DictGet(handler[s].metrics, "g/beta").total_mrs = 1
        /\ Len(handler[s].branch_metrics) = 1

(***************************************************************************)
(* C8, as claimed.  A scrape answered 500 has an empty body and leaves the  *)
(* cache entry exactly as it was before that scrape.                        *)
(***************************************************************************)
C8_CacheAsBefore ==
    \A s \in Slots :
        handler[s].status = 500
        => (handler[s].body = <<>> /\ metrics_cache = handler[s].entry)

(***************************************************************************)
(* C8, amended.  A scrape answered 500 has an empty body, and its handler   *)
(* returns, so that the server takes the next request.  When the error      *)
(* arose in the collection the cache entry is what it was before the        *)
(* scrape; when it arose in the rendering the cache entry is what it was    *)
(* before (a cache hit) or the whole entry that the scrape's own cycle      *)
(* stored before the rendering began.                                       *)
(***************************************************************************)
C8_CacheNotCorrupted ==
    \A s \in Slots :
        /\ handler[s].pc = "error" => ENABLED Except(s)
        /\ handler[s].status = 500
           => /\ handler[s].body = <<>>
              /\ handler[s].pc = "done"
              /\ ENABLED Finish(s)
              /\ handler[s].exc_in = "collect" => metrics_cache = handler[s].entry
              /\ handler[s].exc_in = "render"
                 => (metrics_cache = handler[s].entry \/ metrics_cache = EntryOf(s))

\* A 500 for a rendering error after the scrape's own refresh.
C8_Witness ==
    \E s \in Slots :
        /\ handler[s].status = 500
        /\ handler[s].exc_in = "render"
        /\ handler[s].calls > 0
        /\ metrics_cache = EntryOf(s)
        /\ metrics_cache # handler[s].entry

(***************************************************************************)
(* C11.  Open-ended review time.  When a cycle stores its snapshot, the     *)
(* record of every item whose event log (fetched in that cycle) has an add  *)
(* of in_review at T and no add of rework_done has time_in_review =         *)
(* (now - T) / 3600 for a reading `now` of the clock taken in that very     *)
(* cycle (it is not taken from the cache); it is never smaller than the     *)
(* value that the snapshot it replaces has for the same item, and strictly  *)
(* larger whenever the clock had advanced past the reading of that earlier  *)
(* value when this cycle began.                                             *)
(***************************************************************************)
OpenEnded(events) ==
    Adds(events, LABEL_IN_REVIEW) # {} /\ Adds(events, LABEL_REWORK_DONE) = {}

SameItem(a, b) == a.project = b.project /\ a.branch = b.branch /\ a.mr_title = b.mr_title

OpenEndedStep(s) ==
    (handler[s].pc = "store_data" /\ handler'[s].pc = "store_time")
    => LET h == handler[s]
           refs == ExpectedRefs(h, 1)
           old == metrics_cache.data.branch_metrics
           new == metrics_cache'.data.branch_metrics
       IN  \A n \in 1..Len(refs) :
              LET events == ExpectedEvents(h, refs[n][1], refs[n][2])
              IN  OpenEnded(events)
                  => LET T == FirstAddTime(events, LABEL_IN_REVIEW)
                     IN  /\ \E now \in h.now..clock :
                               new[n].time_in_review = HoursOf(now - T)
                         /\ \A m \in 1..Len(old) :
                               (SameItem(old[m], new[n]) /\ old[m].time_in_review.num # 0)
                               => /\ new[n].time_in_review.num >= old[m].time_in_review.num
                                  /\ h.now > old[m].time_in_review.num + T
                                     => new[n].time_in_review.num
                                        > old[m].time_in_review.num

C11_OpenEndedReview == [][\A s \in Slots : OpenEndedStep(s)]_vars

\* A second cycle has stored a larger value for the item than the first did.
C11_Witness ==
    \E s \in Slots :
        /\ upstream = "dup"
        /\ handler[s].pc = "store_time"
        /\ handler[s].failed = {}
        /\ handler[s].entry.data.branch_metrics # <<>>
        /\ handler[s].entry.data.branch_metrics[1].time_in_review
              = HoursOf(StartTime - fromisoformat(T2))
        /\ metrics_cache.data.branch_metrics[1].time_in_review
              = HoursOf(StartTime + WINDOW - fromisoformat(T2))

(***************************************************************************)
(* C12.  Every derived timing is absent or non-negative: for a log whose    *)
(* events are in chronological order, none earlier than the creation of the *)
(* item and none later than the reading of the clock, each of the three     *)
(* values returned by the reducer is absent or >= 0, and so is what the     *)
(* per-item record keeps of it, whatever the order in which the labels were *)
(* added.                                                                   *)
(***************************************************************************)
Chronological(events) ==
    \A i \in 1..Len(events), j \in 1..Len(events) :
        i <= j => fromisoformat(events[i].created_at) <= fromisoformat(events[j].created_at)

Within(events, created_at, now) ==
    \A i \in 1..Len(events) :
        /\ fromisoformat(created_at) <= fromisoformat(events[i].created_at)
        /\ fromisoformat(events[i].created_at) <= now

NonNegative(d) == d = None \/ Val(d).num >= 0

C12_NonNegative ==
    (/\ red.done
     /\ red.mr.created_at # None
     /\ Chronological(red.events)
     /\ Within(red.events, Val(red.mr.created_at), red.now))
    => /\ red.out.exc = NoExc
       /\ NonNegative(red.out.time_in_rework)
       /\ NonNegative(red.out.time_in_review)
       /\ NonNegative(red.out.time_to_complete)
       /\ BranchData("g/alpha", red.mr, red.out).time_in_rework.num >= 0
       /\ BranchData("g/alpha", red.mr, red.out).time_in_review.num >= 0
       /\ BranchData("g/alpha", red.mr, red.out).time_to_complete.num >= 0

(***************************************************************************)
(* The renderer on its own: do_GET's rendering of a snapshot with one       *)
(* per-item record, whose three timings are what collect_metrics stores     *)
(* for the values returned by the reducer: absent, zero, negative, a second,*)
(* 0.005 hours, 0.01 hours, 0.015 hours, or hours.                          *)
(***************************************************************************)
RenderSeconds == {-3600, 0, 1, 18, 36, 54, 5400}

RenderTimes == {None} \cup {Some(HoursOf(n)) : n \in RenderSeconds}

InitRender ==
    /\ clock = StartTime
    /\ upstream = "two"
    /\ metrics_cache = InitCache
    /\ backlog = <<>>
    /\ handler = [s \in Slots |-> IdleHandler]
    /\ written = [data |-> 0, count |-> 0]
    /\ last_alert = "none"
    /\ failures = 0
    /\ red \in [mr : {M2}, times : [exc : {NoExc}, time_in_rework : RenderTimes,
                                    time_in_review : RenderTimes,
                                    time_to_complete : RenderTimes],
                done : {FALSE}, out : {[exc |-> NoExc, lines |-> <<>>]}]

\* Lines 163-175 and 222-272: the record is built and the snapshot rendered.
RenderRecord ==
    /\ ~red.done
    /\ red' = [red EXCEPT
                 !.done = TRUE,
                 !.out = RenderLines([project_metrics |-> <<>>,
                                      branch_metrics |->
                                          <<BranchData("g/alpha", red.mr, red.times)>>])]
    /\ UNCHANGED <<clock, upstream, metrics_cache, backlog, handler, written, last_alert,
                   failures>>

NextRender == RenderRecord

SpecRender == InitRender /\ [][NextRender]_vars

(***************************************************************************)
(* C13.  Exposition omission: for each of the three timings of a record,    *)
(* the output has a sample line of that timing's metric if and only if the  *)
(* stored value is strictly greater than zero, and then exactly one, whose  *)
(* value is the stored value to the nearest hundredth of an hour.  A value  *)
(* of zero, or an absent one, gives no line; 0.01 hours gives the value     *)
(* 0.01.                                                                    *)
(***************************************************************************)
SamplesOf(lines, name) ==
    {i \in 1..Len(lines) : lines[i].name = name /\ "value" \in DOMAIN lines[i]}

\* c hundredths is the hours h to the nearest hundredth.
NearestCents(c, h) ==
    LET diff == 100 * h.num - c * h.den
    IN  2 * (IF diff < 0 THEN -diff ELSE diff) <= h.den

TimingShown(lines, name, given, stored) ==
    /\ (SamplesOf(lines, name) # {}) <=> (stored.num > 0)
    /\ (given = None \/ Val(given).num = 0) => SamplesOf(lines, name) = {}
    /\ Cardinality(SamplesOf(lines, name)) <= 1
    /\ \A i \in SamplesOf(lines, name) : NearestCents(lines[i].value.cents, stored)
    /\ given = Some(HoursOf(36))
       => \E i \in SamplesOf(lines, name) : lines[i].value.cents = 1

C13_ExpositionOmission ==
    red.done
    => LET rec == BranchData("g/alpha", red.mr, red.times)
           lines == red.out.lines
       IN  /\ red.out.exc = NoExc
           /\ TimingShown(lines, "gitlab_mr_time_in_rework_hours",
                          red.times.time_in_rework, rec.time_in_rework)
           /\ TimingShown(lines, "gitlab_mr_time_in_review_hours",
                          red.times.time_in_review, rec.time_in_review)
           /\ TimingShown(lines, "gitlab_mr_time_to_complete_hours",
                          red.times.time_to_complete, rec.time_to_complete)

\* A record with a zero time_in_rework, 0.01 hours in review, and no
\* time_to_complete: one timing line, of value 0.01.
C13_Witness ==
    /\ red.done
    /\ red.times.time_in_rework = Some(HoursOf(0))
    /\ red.times.time_in_review = Some(HoursOf(36))
    /\ red.times.time_to_complete = None
    /\ SamplesOf(red.out.lines, "gitlab_mr_time_in_rework_hours") = {}
    /\ SamplesOf(red.out.lines, "gitlab_mr_time_to_complete_hours") = {}
    /\ \E i \in SamplesOf(red.out.lines, "gitlab_mr_time_in_review_hours") :
          red.out.lines[i].value.cents = 1

(***************************************************************************)
(* C14.  Every open item is shown.  When the loops of a cycle are done,     *)
(* the records are, one for one and in order, the items that the tracking   *)
(* API returned for the resolved projects; and a scrape answered 200 after  *)
(* its own cycle has, one for one and in order, an info line of value 1 for *)
(* each of these items, with the item's project, branch and title, whatever *)
(* its labels and whether or not its event log gave any timing.             *)
(***************************************************************************)
InfoLines(lines) ==
    LET IsInfo(l) == l.name = "gitlab_mr_info" /\ "value" \in DOMAIN l
    IN  SelectSeq(lines, IsInfo)

RecordOf(h, rec, j, k) ==
    LET mr == ExpectedItems(h, j)[k]
    IN  /\ rec.project = h.projects[j].path_with_namespace
        /\ rec.branch = mr.source_branch
        /\ rec.mr_title = mr.title
        /\ rec.has_rework = (LABEL_REWORK \in mr.labels)
        /\ rec.has_in_review = (LABEL_IN_REVIEW \in mr.labels)
        /\ rec.has_rework_done = (LABEL_REWORK_DONE \in mr.labels)

InfoLineOf(h, line, j, k) ==
    LET mr == ExpectedItems(h, j)[k]
    IN  /\ line.value = IntValue(1)
        /\ line.labels.project = h.projects[j].path_with_namespace
        /\ line.labels.branch = EscapeQuotes(mr.source_branch)
        /\ line.labels.title = Truncate(EscapeQuotes(Val(mr.title)), TITLE_LIMIT)

C14_EveryItemShown ==
    \A s \in Slots :
        LET h == handler[s]
            refs == ExpectedRefs(h, 1)
            info == InfoLines(h.body)
        IN  /\ h.pc \in ({"notify"} \cup StorePcs)
               => /\ Len(h.branch_metrics) = Len(refs)
                  /\ \A n \in 1..Len(refs) :
                        RecordOf(h, h.branch_metrics[n], refs[n][1], refs[n][2])
            /\ (h.status = 200 /\ h.calls > 0)
               => /\ Len(info) = Len(refs)
                  /\ \A n \in 1..Len(refs) :
                        InfoLineOf(h, info[n], refs[n][1], refs[n][2])

\* Three items shown, one of them with no watched label and no event log.
C14_Witness ==
    \E s \in Slots :
        /\ upstream = "two"
        /\ handler[s].status = 200
        /\ handler[s].calls > 0
        /\ handler[s].failed = {}
        /\ Len(InfoLines(handler[s].body)) = 3
        /\ Len(handler[s].data.branch_metrics) = 3
        /\ InfoLines(handler[s].body)[2].labels.branch = M2.source_branch
        /\ M2.labels = {}
        /\ handler[s].data.branch_metrics[2].time_in_review = HoursOf(0)

(***************************************************************************)
(* C15.  Always-present counters.  When the loops of a cycle are done,      *)
(* every resolved project has its five counters, each a natural number; so  *)
(* has every project of the stored snapshot.  A scrape answered 200 has,    *)
(* for every project of its snapshot, exactly one line of each of the five  *)
(* counter metrics, with the counter as value, and no other counter line:   *)
(* also for a project whose item list is empty or failed.                   *)
(***************************************************************************)
CounterMetrics ==
    << <<"gitlab_merge_requests_total", "total_mrs">>,
       <<"gitlab_rework_mrs", "rework_mrs">>,
       <<"gitlab_rework_assigned_to_me", "rework_assigned_to_me">>,
       <<"gitlab_in_review_mrs", "in_review_mrs">>,
       <<"gitlab_rework_done_mrs", "rework_done_mrs">> >>

CounterNames == {CounterMetrics[i][2] : i \in 1..Len(CounterMetrics)}

FiveCounters(stats) ==
    DOMAIN stats = CounterNames /\ \A f \in CounterNames : stats[f] \in Nat

\* The positions in `lines` of the samples of a counter metric.
CounterLines(lines, project) ==
    {<<i, m>> \in (1..Len(lines)) \X (1..Len(CounterMetrics)) :
        /\ "value" \in DOMAIN lines[i]
        /\ lines[i].name = CounterMetrics[m][1]
        /\ lines[i].labels.project = project}

C15_CountersPresent ==
    /\ \A i \in 1..Len(metrics_cache.data.project_metrics) :
          FiveCounters(metrics_cache.data.project_metrics[i].val)
    /\ \A s \in Slots :
          LET h == handler[s]
              pm == h.data.project_metrics
          IN  /\ h.pc \in ({"notify"} \cup StorePcs)
                 => \A j \in 1..Len(h.projects) :
                       /\ DictHas(h.metrics, h.projects[j].path_with_namespace)
                       /\ FiveCounters(DictGet(h.metrics, h.projects[j].path_with_namespace))
              /\ (h.status = 200 /\ h.calls > 0)
                 => \A j \in 1..Len(h.projects) :
                       DictHas(pm, h.projects[j].path_with_namespace)
              /\ h.status = 200
                 => \A i \in 1..Len(pm) :
                       /\ Cardinality(CounterLines(h.body, pm[i].key)) = 5
                       /\ \A m \in 1..Len(CounterMetrics) :
                             \E n \in 1..Len(h.body) :
                                /\ <<n, m>> \in CounterLines(h.body, pm[i].key)
                                /\ h.body[n].value = IntValue(pm[i].val[CounterMetrics[m][2]])

\* The item list of the second project failed: its five counters are shown, all 0.
C15_Witness ==
    \E s \in Slots :
        /\ upstream = "two"
        /\ handler[s].status = 200
        /\ handler[s].failed = {<<"mrs", 2, 0>>}
        /\ DictGet(handler[s].data.project_metrics, "g/beta") = ZeroCounters
        /\ Cardinality(CounterLines(handler[s].body, "g/beta")) = 5
        /\ Cardinality(CounterLines(handler[s].body, "g/alpha")) = 5

(***************************************************************************)
(* C16.  Absent is not zero.  The reducer returns three absent durations    *)
(* for an empty event log (also that of a failed call); and for an item     *)
(* with these three absent durations, the per-item record and the rendered  *)
(* output differ from those of the same item with any one of the durations  *)
(* measured as zero.                                                        *)
(***************************************************************************)
TimingFields == {"time_in_rework", "time_in_review", "time_to_complete"}

RenderedRecord(mr, times) ==
    RenderLines([project_metrics |-> <<>>,
                 branch_metrics |-> <<BranchData("g/alpha", mr, times)>>])

C16_AbsentIsNotZero ==
    /\ calculate_time_in_state(red.mr, gitlab_api(FALSE, LogReworked).value, clock) = NoTimes
    /\ (red.done /\ \A f \in TimingFields : red.times[f] = None)
       => \A f \in TimingFields :
             LET zero == [red.times EXCEPT ![f] = Some(HoursOf(0))]
             IN  /\ BranchData("g/alpha", red.mr, red.times)
                       # BranchData("g/alpha", red.mr, zero)
                 /\ red.out # RenderedRecord(red.mr, zero)

(***************************************************************************)
(* C17.  Counters agree with records: in the snapshot of the cache, the     *)
(* total counter of every project name is the number of per-item records    *)
(* that carry that name, and every record's name has counters.              *)
(***************************************************************************)
RecordsOf(data, project) ==
    {n \in 1..Len(data.branch_metrics) : data.branch_metrics[n].project = project}

C17_CountersMatchRecords ==
    LET data == metrics_cache.data
    IN  /\ \A i \in 1..Len(data.project_metrics) :
              data.project_metrics[i].val.total_mrs
                 = Cardinality(RecordsOf(data, data.project_metrics[i].key))
        /\ \A n \in 1..Len(data.branch_metrics) :
              DictHas(data.project_metrics, data.branch_metrics[n].project)

(***************************************************************************)
(* C18.  When a cycle has completed (the cache entry is whole), the stored  *)
(* last_rework_count is the sum, over the projects of the stored snapshot,  *)
(* of the counter rework_assigned_to_me.                                    *)
(***************************************************************************)
RECURSIVE SumAssignedToMe(_, _)
SumAssignedToMe(project_metrics, i) ==
    IF i > Len(project_metrics) THEN 0
    ELSE project_metrics[i].val.rework_assigned_to_me
         + SumAssignedToMe(project_metrics, i + 1)

C18_CountIsSumOfCounters ==
    (CacheWhole /\ metrics_cache.last_rework_count # None)
    => Val(metrics_cache.last_rework_count)
          = SumAssignedToMe(metrics_cache.data.project_metrics, 1)

(***************************************************************************)
(* C19.  No re-alert after a transient failure.  The tracking API's data    *)
(* stay the same throughout (upstream never changes), so the set of rework  *)
(* items assigned to the identity is the same for all cycles.  A cycle that *)
(* finds a positive last_rework_count in the cache comes after a cycle that *)
(* handed a notification to send_email_alert (the first positive count      *)
(* always opens the gate): such a cycle hands no notification, whatever     *)
(* calls failed in it or in the cycles before.                              *)
(***************************************************************************)
C19_NoReAlert ==
    \A s \in Slots :
        (/\ handler[s].pc \in StorePcs
         /\ LastReworkCount(handler[s].entry) > 0)
        => handler[s].alert = "none"

====
